---------------------------- MODULE Spec2Model ----------------------------
(***************************************************************************)
(* A model of gunpowder's BatchRequest (add / copy / merge with the        *)
(* centering pass) and of the BalanceLabels batch filter (setup / prepare  *)
(* / process with its skip_next flag).                                     *)
(*                                                                         *)
(* Python objects are modelled on a heap: a request is a dict from keys to *)
(* references of spec objects, so that sharing of a spec object between    *)
(* two requests is something the model can express.  Rois and coordinates  *)
(* are immutable values, as in the source (shift and union return new      *)
(* Rois).                                                                   *)
(***************************************************************************)
EXTENDS Integers, Sequences, FiniteSets, TLC

VARIABLES
    heap,        \* spec objects: address -> spec record, or NoObj
    reqs,        \* request variables: name -> (key -> address, or 0)
    live,        \* the request variables that are bound to a request
    last,        \* the most recent call on a request: [op, req, kind, result]
    masks,       \* BalanceLabels.masks: a sequence of keys
    skip_next,   \* BalanceLabels.skip_next
    upstream,    \* the specs the upstream provider provides
    blspec,      \* BalanceLabels.spec: the upstream specs, then its own too
    request,     \* the request travelling upstream through prepare
    batch,       \* the batch travelling downstream through process
    blpc,        \* where the driver of the filter is
    blhist,      \* the most recent prepare and process: what they were given,
                 \* the skip_next prepare found, and how process ended
    inflight     \* overlapping traversals of the filter: name -> where it is,
                 \* what its prepare was given, its request, batch and outcome

vars == <<heap, reqs, live, last, masks, skip_next, upstream, blspec, request, batch,
          blpc, blhist, inflight>>
reqVars == <<heap, reqs, live, last>>
blVars == <<masks, skip_next, upstream, blspec, request, batch, blpc, blhist, inflight>>

----------------------------------------------------------------------------
(* Bounds of the model *)

\* largest component of a shape passed to add
MaxShape == 2
\* largest number of voxels of a requested roi
MaxVoxels == 2

\* Python's None, for a dtype
None == "None"
\* Python's None, for a Coordinate (a voxel_size that is not set)
NoCoord == <<>>

----------------------------------------------------------------------------
(* Coordinate and Roi: two-dimensional integer tuples, offset + shape *)

Min(a, b) == IF a <= b THEN a ELSE b
Max(a, b) == IF a >= b THEN a ELSE b

CoordAdd(a, b) == <<a[1] + b[1], a[2] + b[2]>>
CoordSub(a, b) == <<a[1] - b[1], a[2] - b[2]>>
\* Coordinate / 2: the result is a Coordinate, whose components are integers
CoordHalf(a) == <<a[1] \div 2, a[2] \div 2>>

Roi(offset, shape) == [offset |-> offset, shape |-> shape]
get_begin(roi) == roi.offset
get_end(roi) == CoordAdd(roi.offset, roi.shape)
get_center(roi) == CoordAdd(roi.offset, CoordHalf(roi.shape))
shift(roi, by) == Roi(CoordAdd(roi.offset, by), roi.shape)

\* Python's None, for a Roi (a spec whose roi is not set)
NoRoi == [offset |-> NoCoord, shape |-> NoCoord]

\* smallest Roi containing both; an undefined Roi is the identity
union(r1, r2) ==
    IF r1 = NoRoi THEN r2
    ELSE IF r2 = NoRoi THEN r1
    ELSE LET b == <<Min(r1.offset[1], r2.offset[1]), Min(r1.offset[2], r2.offset[2])>>
             e == <<Max(get_end(r1)[1], get_end(r2)[1]), Max(get_end(r1)[2], get_end(r2)[2])>>
         IN  Roi(b, CoordSub(e, b))

----------------------------------------------------------------------------
(* Keys, specs, the heap *)

ArrayKeys == {"a1", "a2"}
GraphKeys == {"g1"}
Keys == ArrayKeys \cup GraphKeys
\* something that is neither an ArrayKey nor a GraphKey
OtherKeys == {"notakey"}
\* the keys a dict can hold, in a fixed order
KeySeq == <<"a1", "a2", "g1", "notakey">>
AllKeys == Keys \cup OtherKeys

ReqSeq == <<"r1", "r2", "m">>
ReqNames == {ReqSeq[i] : i \in 1..Len(ReqSeq)}

Addr == 1..(Len(ReqSeq) * Len(KeySeq))

IndexOf(seq, x) == CHOOSE i \in 1..Len(seq) : seq[i] = x

ArraySpec(roi, voxel_size, dtype, nonspatial) ==
    [type |-> "ArraySpec", roi |-> roi, voxel_size |-> voxel_size,
     dtype |-> dtype, nonspatial |-> nonspatial]
GraphSpec(roi, dtype, nonspatial) ==
    [type |-> "GraphSpec", roi |-> roi, voxel_size |-> NoCoord,
     dtype |-> dtype, nonspatial |-> nonspatial]
\* no spec: a free heap cell, a key a request does not hold
NoSpec ==
    [type |-> "NoSpec", roi |-> NoRoi, voxel_size |-> NoCoord,
     dtype |-> None, nonspatial |-> FALSE]

EmptyRequest == [k \in AllKeys |-> 0]

\* keys of a request dict
KeysOf(d) == {k \in AllKeys : d[k] # 0}

\* every address some request variable refers to
Referenced(rq) == UNION {{rq[r][k] : k \in KeysOf(rq[r])} : r \in ReqNames}

\* the address a request's own spec object for a key is put at
Home == [r \in ReqNames, k \in AllKeys |->
            (IndexOf(ReqSeq, r) - 1) * Len(KeySeq) + IndexOf(KeySeq, k)]
LeastOf(free) == CHOOSE a \in free : \A b \in free : a <= b

\* a fresh object for request r, key k: an address nothing refers to
FreshAt(rq, used, home) ==
    IF home \notin used /\ \A x \in ReqNames, y \in AllKeys : rq[x][y] # home
    THEN home
    ELSE LeastOf(Addr \ (Referenced(rq) \cup used))
NewAddr(rq, used, r, k) == FreshAt(rq, used, Home[r, k])

\* objects nothing refers to are collected
CollectRefs(h, refs) == [a \in Addr |-> IF a \in refs THEN h[a] ELSE NoSpec]
Collect(h, rq) == CollectRefs(h, Referenced(rq))

\* the value of a request: key -> spec record, for the keys it holds
ValueOf(h, d) == [k \in AllKeys |-> IF d[k] = 0 THEN NoSpec ELSE h[d[k]]]
Value(r) == ValueOf(heap, reqs[r])

----------------------------------------------------------------------------
(* ProviderSpec: the dict operations BatchRequest inherits *)

StoreAt(h, rq, r, k, spec, a) ==
    [heap |-> [h EXCEPT ![a] = spec], reqs |-> [rq EXCEPT ![r][k] = a]]

\* ProviderSpec.__setitem__: stores a fresh copy of the spec under the key
setitem(h, rq, r, k, spec) ==
    StoreAt(h, rq, r, k, spec, NewAddr([rq EXCEPT ![r][k] = 0], {}, r, k))

\* ProviderSpec.__delitem__
delitem(h, rq, r, k) == [heap |-> h, reqs |-> [rq EXCEPT ![r][k] = 0]]

RECURSIVE UnionAll(_)
UnionAll(rois) ==
    IF rois = {} THEN NoRoi
    ELSE LET x == CHOOSE y \in rois : TRUE
         IN  union(x, UnionAll(rois \ {x}))

\* ProviderSpec.get_total_roi: union of the Rois of all spatial specs with a Roi
get_total_roi(h, d) ==
    UnionAll({h[d[k]].roi : k \in {x \in KeysOf(d) :
                  ~h[d[x]].nonspatial /\ h[d[x]].roi # NoRoi}})

----------------------------------------------------------------------------
(* BatchRequest *)

\* the assignment of line 71 for one spec object
ShiftedMut(spec, center) == spec
Shifted(spec, center) ==
    [spec EXCEPT !.roi = shift(spec.roi, CoordSub(center, get_center(spec.roi)))]

\* the loop of lines 68-71 over the keys ks of the dict d
ShiftAll(h, d, ks, center) ==
    [a \in Addr |-> IF \E k \in ks : d[k] = a THEN Shifted(h[a], center) ELSE h[a]]

\* the pass once total_roi is known to be a Roi.  A spec whose roi is None
\* makes roi.get_center() raise; array_specs are iterated before graph_specs,
\* and the specs iterated before the failing one (dict order: any order here)
\* are already shifted.
CenterAround(h, d, center, bad) ==
    IF bad = {} THEN {[heap |-> ShiftAll(h, d, KeysOf(d), center), result |-> "ok"]}
    ELSE IF bad \cap ArrayKeys # {}
    THEN {[heap |-> ShiftAll(h, d, S, center), result |-> "AttributeError"] :
             S \in SUBSET ((KeysOf(d) \cap ArrayKeys) \ bad)}
    ELSE {[heap |-> ShiftAll(h, d, (KeysOf(d) \cap ArrayKeys) \cup S, center),
           result |-> "AttributeError"] :
             S \in SUBSET ((KeysOf(d) \cap GraphKeys) \ bad)}

\* a pass that returns before the loop whatever total_roi is
CenterTotalMut(h, d, total_roi) == {[heap |-> h, result |-> "ok"]}
CenterTotal(h, d, total_roi) ==
    IF total_roi = NoRoi THEN {[heap |-> h, result |-> "ok"]}
    ELSE CenterAround(h, d, get_center(total_roi),
                      {k \in KeysOf(d) : h[d[k]].roi = NoRoi})

\* BatchRequest.__center_rois: the set of outcomes [heap, result]
center_rois(h, d) == CenterTotal(h, d, get_total_roi(h, d))

\* the spec add builds (lines 40-50)
NewSpecMut(key, shape, voxel_size) ==
    ArraySpec(Roi(<<0, 0>>, <<shape[2], shape[1]>>), voxel_size, None, FALSE)
NewSpec(key, shape, voxel_size) ==
    IF key \in ArrayKeys THEN ArraySpec(Roi(<<0, 0>>, shape), voxel_size, None, FALSE)
    ELSE [GraphSpec(Roi(<<0, 0>>, shape), None, FALSE) EXCEPT !.voxel_size = voxel_size]

\* whether add accepts the key (lines 40-45)
AddAcceptsMut(key) == TRUE
AddAccepts(key) == key \in ArrayKeys \/ key \in GraphKeys

\* lines 52-53: self[key] = spec, then the centering pass
InsertAndCenter(s, r) ==
    {[heap |-> Collect(c.heap, s.reqs), reqs |-> s.reqs, result |-> c.result] :
        c \in center_rois(s.heap, s.reqs[r])}

\* the family of a key: what isinstance tells about it
KeyKind(key) ==
    IF key \in ArrayKeys THEN "ArrayKey"
    ELSE IF key \in GraphKeys THEN "GraphKey" ELSE "other"

\* BatchRequest.add: the set of outcomes [heap, reqs, result]
add(h, rq, r, key, shape, voxel_size) ==
    IF ~AddAccepts(key)
    THEN {[heap |-> h, reqs |-> rq, result |-> "RuntimeError"]}
    ELSE InsertAndCenter(setitem(h, rq, r, key, NewSpec(key, shape, voxel_size)), r)

----------------------------------------------------------------------------
(* BatchRequest.copy and BatchRequest.merge *)

\* a dict whose specs are the very objects of the dict d
copyMut(h, rq, src, dst) == [heap |-> h, reqs |-> [rq EXCEPT ![dst] = rq[src]]]

RECURSIVE DeepCopyFrom(_, _, _, _, _)
DeepCopyFrom(h, rq, src, dst, i) ==
    IF i > Len(KeySeq) THEN [heap |-> h, reqs |-> rq]
    ELSE IF rq[src][KeySeq[i]] = 0 THEN DeepCopyFrom(h, rq, src, dst, i + 1)
    ELSE DeepCopyFrom(
            [h EXCEPT ![NewAddr(rq, {}, dst, KeySeq[i])] = h[rq[src][KeySeq[i]]]],
            [rq EXCEPT ![dst][KeySeq[i]] = NewAddr(rq, {}, dst, KeySeq[i])],
            src, dst, i + 1)

\* BatchRequest.copy: copy.deepcopy(self), bound to the variable dst.
\* Every spec of the copy is a new object.
copy(h, rq, src, dst) ==
    DeepCopyFrom(h, [rq EXCEPT ![dst] = EmptyRequest], src, dst, 1)

\* line 84: the incoming spec overwrites the existing one
OverwritesMut(spec, existing) == spec.type = "GraphSpec" /\ existing.nonspatial
Overwrites(spec, existing) == spec.type = "ArraySpec" /\ existing.nonspatial

\* line 87: the roi the existing spec of merged gets
MergedRoiMut(existing, spec) == spec.roi
MergedRoi(existing, spec) == union(existing.roi, spec.roi)

\* lines 82 and 85: merged[key] = spec
\* (as MergeStoreMut: the dict holds the very spec object of request)
MergeStoreMut(s, src, dst, key) ==
    [heap |-> s.heap, reqs |-> [s.reqs EXCEPT ![dst][key] = s.reqs[src][key]],
     result |-> "ok"]
MergeStore(s, src, dst, key) ==
    setitem(s.heap, s.reqs, dst, key, s.heap[s.reqs[src][key]]) @@ [result |-> "ok"]

\* lines 81-87 for one key of request: s is [heap, reqs, result] so far
MergeKey(s, src, dst, key) ==
    IF s.result # "ok" \/ s.reqs[src][key] = 0 THEN s
    ELSE IF s.reqs[dst][key] = 0
    THEN MergeStore(s, src, dst, key)
    ELSE IF Overwrites(s.heap[s.reqs[src][key]], s.heap[s.reqs[dst][key]])
    THEN MergeStore(s, src, dst, key)
    ELSE IF s.heap[s.reqs[dst][key]].roi = NoRoi
    THEN [s EXCEPT !.result = "AttributeError"]
    ELSE [s EXCEPT !.heap[s.reqs[dst][key]].roi =
             MergedRoi(s.heap[s.reqs[dst][key]], s.heap[s.reqs[src][key]])]

RECURSIVE MergeLoop(_, _, _, _)
MergeLoop(s, src, dst, i) ==
    IF i > Len(KeySeq) THEN s
    ELSE MergeLoop(MergeKey(s, src, dst, KeySeq[i]), src, dst, i + 1)

\* line 78: merged = self.copy()
MergedStartMut(h, rq, self, dst) == copyMut(h, rq, self, dst)
MergedStart(h, rq, self, dst) == copy(h, rq, self, dst)

\* BatchRequest.merge: self.merge(request), the result bound to the variable
\* dst.  When the loop raises, nothing is returned and dst keeps its value.
MergeDoneMut(h, rq, s) ==
    [heap |-> Collect((CHOOSE c \in center_rois(s.heap, s.reqs["m"]) : TRUE).heap, s.reqs),
     reqs |-> s.reqs, result |-> s.result]
MergeDone(h, rq, s) ==
    IF s.result = "ok"
    THEN [heap |-> Collect(s.heap, s.reqs), reqs |-> s.reqs, result |-> "ok"]
    ELSE [heap |-> Collect(s.heap, rq), reqs |-> rq, result |-> s.result]

merge(h, rq, self, other, dst) ==
    MergeDone(h, rq,
        MergeLoop(MergedStart(h, rq, self, dst) @@ [result |-> "ok"], other, dst, 1))

----------------------------------------------------------------------------
(* BalanceLabels *)

\* the keys of the filter: the constructor's labels and scales, the masks
labels == "LABELS"
scales == "SCALES"
MaskKeys == {"MASK1", "MASK2"}
BLKeys == {labels, scales} \cup MaskKeys

\* __init__: mask=None, one mask, a list of masks
MaskArgs == {<<>>, <<"MASK1">>, <<"MASK1", "MASK2">>}

Volume(data, spec) == [data |-> data, spec |-> spec]
NoVolume == Volume(<<>>, NoSpec)
EmptyBatch == [k \in BLKeys |-> NoVolume]
EmptyBLRequest == [k \in BLKeys |-> NoSpec]
Holds(d, k) == d[k].type # "NoSpec"
InBatch(b, k) == b[k].spec.type # "NoSpec"

\* BatchFilter.provides: registers the spec of a stream the filter provides
provides(spec, key, s) == [spec EXCEPT ![key] = s]

\* lines 50-51: what the dtype assignment does to self.spec[self.labels]
LabelsAfterCopyMut(spec) == [spec EXCEPT !.dtype = "float32"]
LabelsAfterCopy(spec) == spec

\* lines 42-48: the assertions of setup
SetupAssertsMut(spec, ms) == Holds(spec, labels)
SetupAsserts(spec, ms) ==
    /\ Holds(spec, labels)
    /\ \A i \in 1..Len(ms) : Holds(spec, ms[i])

\* BalanceLabels.setup: [result, spec]
setup(spec, ms) ==
    IF ~SetupAsserts(spec, ms)
    THEN [result |-> "AssertionError", spec |-> spec]
    ELSE [result |-> "ok",
          spec |-> provides([spec EXCEPT ![labels] = LabelsAfterCopy(spec[labels])],
                            scales, [spec[labels] EXCEPT !.dtype = "float32"])]

\* line 58: del request[self.scales]
DelScalesMut(req) == req
DelScales(req) == [req EXCEPT ![scales] = NoSpec]

\* BalanceLabels.prepare: [skip_next, request]
prepare(req) ==
    IF Holds(req, scales)
    THEN [skip_next |-> FALSE, request |-> DelScales(req)]
    ELSE [skip_next |-> TRUE, request |-> req]

\* rationals, in lowest terms: <<numerator, denominator>>
RECURSIVE Gcd(_, _)
Gcd(a, b) == IF b = 0 THEN a ELSE Gcd(b, a % b)
\* what 0.0 / 0.0 gives: not a number
NaN == <<0, 0>>
Rat(n, d) ==
    IF d = 0 THEN NaN
    ELSE IF n = 0 THEN <<0, 1>> ELSE <<n \div Gcd(n, d), d \div Gcd(n, d)>>
RatLess(x, y) == x[1] * y[2] < y[1] * x[2]

RECURSIVE Sum(_, _)
Sum(seq, i) == IF i > Len(seq) THEN 0 ELSE seq[i] + Sum(seq, i + 1)

\* lines 70-81: ones, multiplied by every mask
RECURSIVE MaskProduct(_, _, _, _)
MaskProduct(b, ms, i, n) ==
    IF i > Len(ms) THEN [j \in 1..n |-> 1]
    ELSE [j \in 1..n |-> b[ms[i]].data[j] * MaskProduct(b, ms, i + 1, n)[j]]

\* line 85: floor(clip(labels + 0.5, 0, 1)), for integer label values
Binary(v) == IF v >= 1 THEN 1 ELSE 0

\* line 88: np.clip(frac_pos, 0.05, 0.95)
ClipMut(f) == f
Clip(f) ==
    IF RatLess(f, <<1, 20>>) THEN <<1, 20>>
    ELSE IF RatLess(<<19, 20>>, f) THEN <<19, 20>> ELSE f

\* line 87: whether num_pos is divided by masked_in
HasMaskedInMut(masked_in) == TRUE
HasMaskedIn(masked_in) == masked_in > 0

\* lines 84-87: frac_pos before it is clipped
RawFracPos(lb, es) ==
    IF HasMaskedIn(Sum(es, 1))
    THEN Rat(Sum([j \in 1..Len(es) |-> lb[j] * es[j]], 1), Sum(es, 1))
    ELSE <<0, 1>>

\* lines 84-88
FracPos(lb, es) == Clip(RawFracPos(lb, es))

\* lines 92-93
WPos(f) == Rat(f[2], 2 * f[1])
WNegMut(f) == Rat(f[2], 2 * f[1])
WNeg(f) == Rat(f[2], 2 * (f[2] - f[1]))

\* line 96, with the weights of lines 92-93
WeightedMut(lb, es, f) == [j \in 1..Len(es) |-> IF lb[j] >= 1 THEN WPos(f) ELSE WNeg(f)]
Weighted(lb, es, f) ==
    [j \in 1..Len(es) |->
        IF lb[j] >= 1 THEN Rat(es[j] * WPos(f)[1], WPos(f)[2])
        ELSE Rat(es[j] * WNeg(f)[1], WNeg(f)[2])]

\* lines 83-96: the scales of the label data under the product of the masks
ErrorScale(data, es) ==
    Weighted([j \in 1..Len(data) |-> Binary(data[j])], es,
             FracPos([j \in 1..Len(data) |-> Binary(data[j])], es))

\* lines 73-81: how the loop over the masks ends
MaskLoop(b, ms) ==
    IF \A i \in 1..Len(ms) :
          InBatch(b, ms[i]) /\ Len(b[ms[i]].data) = Len(b[labels].data)
    THEN "ok"
    ELSE IF ~InBatch(b, ms[CHOOSE i \in 1..Len(ms) :
                /\ ~(InBatch(b, ms[i]) /\ Len(b[ms[i]].data) = Len(b[labels].data))
                /\ \A j \in 1..(i - 1) :
                      InBatch(b, ms[j]) /\ Len(b[ms[j]].data) = Len(b[labels].data)])
    THEN "KeyError"
    ELSE "AssertionError"

\* lines 63-65: whether process returns at once
SkipsMut(skip) == FALSE
Skips(skip) == skip

\* lines 98-99: a copy of the provided scales spec, with the roi of the labels
\* volume of the batch
ScalesSpecMut(spec, b) == spec[scales]
ScalesSpec(spec, b) == [spec[scales] EXCEPT !.roi = b[labels].spec.roi]

\* BalanceLabels.process: [skip_next, batch, outcome]
process(skip, spec, b, ms) ==
    IF Skips(skip) THEN [skip_next |-> FALSE, batch |-> b, outcome |-> "skipped"]
    ELSE IF ~InBatch(b, labels)
    THEN [skip_next |-> skip, batch |-> b, outcome |-> "KeyError"]
    ELSE IF MaskLoop(b, ms) # "ok"
    THEN [skip_next |-> skip, batch |-> b, outcome |-> MaskLoop(b, ms)]
    ELSE [skip_next |-> skip,
          batch |-> [b EXCEPT ![scales] =
              Volume(ErrorScale(b[labels].data,
                                MaskProduct(b, ms, 1, Len(b[labels].data))),
                     ScalesSpec(spec, b))],
          outcome |-> "computed"]

----------------------------------------------------------------------------
(* Inputs *)

Shapes == {<<y, x>> : y \in 0..MaxShape, x \in 0..MaxShape}
VoxelSizes == {NoCoord, <<1, 1>>}

\* what the upstream provider declares for a key
UpstreamSpec(k) ==
    IF k = labels THEN ArraySpec(Roi(<<0, 0>>, <<2, 2>>), <<1, 1>>, "uint8", FALSE)
    ELSE ArraySpec(Roi(<<0, 0>>, <<2, 2>>), <<1, 1>>, "bool", FALSE)

\* the upstream provider provides some of labels and masks, never scales
UpstreamSpecs ==
    {[k \in BLKeys |-> IF k \in S THEN UpstreamSpec(k) ELSE NoSpec] :
        S \in SUBSET ({labels} \cup MaskKeys)}

\* the rois a downstream request asks for: one voxel, two voxels
BLRois == {Roi(<<0, 0>>, <<1, 1>>), Roi(<<0, 1>>, <<1, MaxVoxels>>)}
RequestedSpecs == {NoSpec} \cup {ArraySpec(roi, NoCoord, None, FALSE) : roi \in BLRois}
BLRequests == [BLKeys -> RequestedSpecs]

NumVoxels(roi) == roi.shape[1] * roi.shape[2]
LabelValues == {0, 1, 2}
MaskValues == {0, 1}
ValuesOf(k) == IF k = labels THEN LabelValues ELSE MaskValues

\* the data the upstream provider may return for a key of a request
DataFor(req, k) ==
    IF Holds(req, k) THEN [1..NumVoxels(req[k].roi) -> ValuesOf(k)] ELSE {<<>>}

\* the volume of a requested key: the data, under the provider's spec with
\* the requested roi
VolumeFor(req, k, data) ==
    IF Holds(req, k) THEN Volume(data, [UpstreamSpec(k) EXCEPT !.roi = req[k].roi])
    ELSE NoVolume

\* the batch of the data of labels and the two masks (scales is never
\* forwarded, and the upstream provider does not provide it)
BatchOf(req, dl, d1, d2) ==
    [k \in BLKeys |->
        VolumeFor(req, k, IF k = labels THEN dl
                          ELSE IF k = "MASK1" THEN d1
                          ELSE IF k = "MASK2" THEN d2 ELSE <<>>)]

\* the logical requests that may overlap in one filter instance
Traversals == {"A", "B"}
NewTraversal == [pc |-> "new", hadScales |-> FALSE, request |-> EmptyBLRequest,
                 batch |-> EmptyBatch, outcome |-> "none"]

InitReq ==
    /\ heap = [a \in Addr |-> NoSpec]
    /\ reqs = [r \in ReqNames |-> EmptyRequest]
    /\ live = {"r1"}
    /\ last = [op |-> "init", req |-> "r1", kind |-> "none", result |-> "ok"]

InitDriver ==
    /\ blspec = upstream
    /\ request = EmptyBLRequest
    /\ batch = EmptyBatch
    /\ blpc = "new"
    /\ blhist = [hadScales |-> FALSE, stale |-> FALSE, request |-> EmptyBLRequest,
                 batch |-> EmptyBatch, outcome |-> "none"]
    /\ inflight = [t \in Traversals |-> NewTraversal]

InitBL ==
    /\ masks \in MaskArgs
    /\ skip_next = FALSE
    /\ upstream \in UpstreamSpecs
    /\ InitDriver

\* no filter at work: the state of a filter that is never set up
NoBL ==
    /\ masks = <<>>
    /\ skip_next = FALSE
    /\ upstream = EmptyBLRequest
    /\ InitDriver

Init == InitReq /\ NoBL

----------------------------------------------------------------------------
(* Building one request with add *)

\* r.add(key, shape, voxel_size), with what is noted of the call in last.kind
AddAs(r, key, shape, voxel_size, kind) ==
    /\ r \in live
    /\ \E out \in add(heap, reqs, r, key, shape, voxel_size) :
          /\ heap' = out.heap
          /\ reqs' = out.reqs
          /\ last' = [op |-> "add", req |-> r, kind |-> kind, result |-> out.result]
    /\ UNCHANGED live
    /\ UNCHANGED blVars

Add(r, key, shape, voxel_size) == AddAs(r, key, shape, voxel_size, KeyKind(key))

AddCall ==
    \E key \in Keys, shape \in Shapes : Add("r1", key, shape, NoCoord)

AddOtherKey ==
    \E key \in OtherKeys, shape \in Shapes : Add("r1", key, shape, NoCoord)

NextAdd == AddCall \/ AddOtherKey

SpecAdd == Init /\ [][NextAdd]_vars

----------------------------------------------------------------------------
(* Building one request with add, last.kind keeping the shape most recently
   passed to add for every key *)

InitShapes ==
    /\ heap = [a \in Addr |-> NoSpec]
    /\ reqs = [r \in ReqNames |-> EmptyRequest]
    /\ live = {"r1"}
    /\ last = [op |-> "init", req |-> "r1", kind |-> [k \in Keys |-> NoCoord],
               result |-> "ok"]
    /\ NoBL

AddShape ==
    \E key \in Keys, shape \in Shapes :
        AddAs("r1", key, shape, NoCoord, [last.kind EXCEPT ![key] = shape])

\* a rejected add: no shape is noted
AddRejected ==
    \E key \in OtherKeys, shape \in Shapes : AddAs("r1", key, shape, NoCoord, last.kind)

NextShapes == AddShape \/ AddRejected

SpecShapes == InitShapes /\ [][NextShapes]_vars

----------------------------------------------------------------------------
(* Two keys added to an empty request, one after the other *)

\* the shapes of the grid, and the 10x10 and 20x20 of the documented scenario
ExampleShapes == Shapes \cup {<<10, 10>>, <<20, 20>>}

AddFirst ==
    /\ KeysOf(reqs["r1"]) = {}
    /\ \E key \in Keys, shape \in ExampleShapes : Add("r1", key, shape, NoCoord)

AddSecond ==
    /\ Cardinality(KeysOf(reqs["r1"])) = 1
    /\ \E key \in Keys \ KeysOf(reqs["r1"]), shape \in ExampleShapes :
          Add("r1", key, shape, NoCoord)

NextPair == AddFirst \/ AddSecond

SpecPair == Init /\ [][NextPair]_vars

----------------------------------------------------------------------------
(* Copying a request, then changing the original or the copy *)

\* shapes with equal components
SquareShapes == {s \in Shapes : s[1] = s[2] /\ s[1] > 0}

CopyCall ==
    /\ LET out == copy(heap, reqs, "r1", "r2")
       IN  /\ heap' = Collect(out.heap, out.reqs)
           /\ reqs' = out.reqs
    /\ live' = live \cup {"r2"}
    /\ last' = [op |-> "copy", req |-> "r1", kind |-> "none", result |-> "ok"]
    /\ UNCHANGED blVars

\* del request[key]
DelCall ==
    \E r \in live, key \in Keys :
        /\ reqs[r][key] # 0
        /\ LET out == delitem(heap, reqs, r, key)
           IN  /\ heap' = Collect(out.heap, out.reqs)
               /\ reqs' = out.reqs
        /\ last' = [op |-> "del", req |-> r, kind |-> "none", result |-> "ok"]
        /\ UNCHANGED live
        /\ UNCHANGED blVars

AddEither ==
    \E r \in live, key \in Keys, shape \in SquareShapes : Add(r, key, shape, NoCoord)

NextCopy == AddEither \/ DelCall \/ CopyCall

SpecCopy == Init /\ [][NextCopy]_vars

----------------------------------------------------------------------------
(* Merging two requests built by assigning specs *)

\* the specs assigned to array keys: full, partial, nonspatial
ArraySamples ==
    { ArraySpec(Roi(<<0, 0>>, <<2, 2>>), <<1, 1>>, "uint8", FALSE),
      ArraySpec(Roi(<<1, 1>>, <<2, 1>>), NoCoord, None, FALSE),
      ArraySpec(NoRoi, NoCoord, "float32", TRUE),
      ArraySpec(Roi(<<0, 1>>, <<1, 1>>), <<2, 2>>, "float32", TRUE) }

\* the specs assigned to graph keys
GraphSamples ==
    { GraphSpec(Roi(<<0, 1>>, <<1, 2>>), "float32", FALSE),
      GraphSpec(NoRoi, None, TRUE),
      GraphSpec(Roi(<<2, 0>>, <<1, 1>>), "float32", TRUE) }

SamplesFor(key) == IF key \in ArrayKeys THEN ArraySamples ELSE GraphSamples

InitMerge ==
    /\ heap = [a \in Addr |-> NoSpec]
    /\ reqs = [r \in ReqNames |-> EmptyRequest]
    /\ live = {"r1", "r2"}
    /\ last = [op |-> "init", req |-> "r1", kind |-> "none", result |-> "ok"]
    /\ NoBL

\* request[key] = spec
SetItem ==
    \E r \in {"r1", "r2"}, key \in Keys :
        \E spec \in SamplesFor(key) :
            /\ "m" \notin live
            /\ LET out == setitem(heap, reqs, r, key, spec)
               IN  /\ heap' = Collect(out.heap, out.reqs)
                   /\ reqs' = out.reqs
            /\ last' = [op |-> "setitem", req |-> r, kind |-> "none", result |-> "ok"]
            /\ UNCHANGED live
            /\ UNCHANGED blVars

\* m = r1.merge(r2)
MergeCall ==
    /\ "m" \notin live
    /\ LET out == merge(heap, reqs, "r1", "r2", "m")
       IN  /\ heap' = out.heap
           /\ reqs' = out.reqs
           /\ live' = IF out.result = "ok" THEN live \cup {"m"} ELSE live
           /\ last' = [op |-> "merge", req |-> "r1", kind |-> "none",
                       result |-> out.result]
    /\ UNCHANGED blVars

NextMerge == SetItem \/ MergeCall

SpecMerge == InitMerge /\ [][NextMerge]_vars

----------------------------------------------------------------------------
(* Merging two requests, then adding to the merged request *)

\* the specs assigned before the merge: a spatial and a nonspatial array
\* spec, a spatial graph spec, all with a roi
MergeAddSamples(key) ==
    IF key \in ArrayKeys
    THEN { ArraySpec(Roi(<<1, 1>>, <<2, 1>>), <<1, 1>>, "uint8", FALSE),
           ArraySpec(Roi(<<0, 1>>, <<1, 1>>), <<2, 2>>, "float32", TRUE) }
    ELSE { GraphSpec(Roi(<<0, 1>>, <<1, 2>>), "float32", FALSE) }

SetItemBefore ==
    \E r \in {"r1", "r2"}, key \in Keys :
        \E spec \in MergeAddSamples(key) :
            /\ "m" \notin live
            /\ LET out == setitem(heap, reqs, r, key, spec)
               IN  /\ heap' = Collect(out.heap, out.reqs)
                   /\ reqs' = out.reqs
            /\ last' = [op |-> "setitem", req |-> r, kind |-> "none", result |-> "ok"]
            /\ UNCHANGED live
            /\ UNCHANGED blVars

\* m.add(key, shape)
AddMerged ==
    /\ "m" \in live
    /\ \E key \in Keys, shape \in SquareShapes : Add("m", key, shape, NoCoord)

NextMergeAdd == SetItemBefore \/ MergeCall \/ AddMerged

SpecMergeAdd == InitMerge /\ [][NextMergeAdd]_vars

----------------------------------------------------------------------------
(* One request built by assigning specs and by add *)

\* r1[key] = spec
Assign ==
    \E key \in Keys :
        \E spec \in SamplesFor(key) :
            /\ LET out == setitem(heap, reqs, "r1", key, spec)
               IN  /\ heap' = Collect(out.heap, out.reqs)
                   /\ reqs' = out.reqs
            /\ last' = [op |-> "setitem", req |-> "r1", kind |-> "none", result |-> "ok"]
            /\ UNCHANGED live
            /\ UNCHANGED blVars

AddSquare ==
    \E key \in Keys, shape \in SquareShapes : Add("r1", key, shape, NoCoord)

NextAssign == Assign \/ AddSquare

SpecAssign == Init /\ [][NextAssign]_vars

----------------------------------------------------------------------------
(* One BalanceLabels instance, driven through one request after the other *)

Setup ==
    /\ blpc = "new"
    /\ blspec' = setup(blspec, masks).spec
    /\ blpc' = IF setup(blspec, masks).result = "ok" THEN "idle" ELSE "failed"
    /\ UNCHANGED <<inflight, masks, skip_next, upstream, request, batch, blhist>>
    /\ UNCHANGED reqVars

\* a downstream request arrives: prepare rewrites it
Prepare ==
    /\ blpc = "idle"
    /\ \E req \in BLRequests :
          /\ skip_next' = prepare(req).skip_next
          /\ request' = prepare(req).request
          /\ blhist' = [blhist EXCEPT !.hadScales = Holds(req, scales),
                                      !.stale = skip_next,
                                      !.request = req, !.outcome = "none"]
    /\ blpc' = "prepared"
    /\ batch' = EmptyBatch
    /\ UNCHANGED <<inflight, masks, upstream, blspec>>
    /\ UNCHANGED reqVars

\* the upstream provider answers the request it was forwarded
Fetch ==
    /\ blpc = "prepared"
    /\ \A k \in BLKeys : Holds(request, k) => Holds(upstream, k)
    /\ \E dl \in DataFor(request, labels),
          d1 \in DataFor(request, "MASK1"), d2 \in DataFor(request, "MASK2") :
          /\ batch' = BatchOf(request, dl, d1, d2)
          /\ blhist' = [blhist EXCEPT !.batch = BatchOf(request, dl, d1, d2)]
    /\ blpc' = "fetched"
    /\ UNCHANGED <<inflight, masks, skip_next, upstream, blspec, request>>
    /\ UNCHANGED reqVars

Process ==
    /\ blpc = "fetched"
    /\ skip_next' = process(skip_next, blspec, batch, masks).skip_next
    /\ batch' = process(skip_next, blspec, batch, masks).batch
    /\ blhist' = [blhist EXCEPT
                     !.outcome = process(skip_next, blspec, batch, masks).outcome]
    /\ blpc' = "processed"
    /\ UNCHANGED <<inflight, masks, upstream, blspec, request>>
    /\ UNCHANGED reqVars

\* the batch is handed downstream
Return ==
    /\ blpc = "processed"
    /\ blpc' = "idle"
    /\ batch' = EmptyBatch
    /\ request' = EmptyBLRequest
    /\ blhist' = [hadScales |-> FALSE, stale |-> FALSE, request |-> EmptyBLRequest,
                  batch |-> EmptyBatch, outcome |-> "none"]
    /\ UNCHANGED <<inflight, masks, skip_next, upstream, blspec>>
    /\ UNCHANGED reqVars

\* the caller gives the traversal up after prepare: process never runs
Abandon ==
    /\ blpc \in {"prepared", "fetched"}
    /\ blpc' = "idle"
    /\ batch' = EmptyBatch
    /\ request' = EmptyBLRequest
    /\ blhist' = [hadScales |-> FALSE, stale |-> FALSE, request |-> EmptyBLRequest,
                  batch |-> EmptyBatch, outcome |-> "none"]
    /\ UNCHANGED <<inflight, masks, skip_next, upstream, blspec>>
    /\ UNCHANGED reqVars

NextBL == Setup \/ Prepare \/ Fetch \/ Process \/ Return \/ Abandon

InitBalance == InitReq /\ InitBL

SpecBL == InitBalance /\ [][NextBL]_vars

----------------------------------------------------------------------------
(* One BalanceLabels instance, two logical requests whose prepare and process
   calls overlap: each request's prepare comes before its own process *)

\* the upstream provider provides the labels and both masks
FullUpstream == [k \in BLKeys |-> IF k = scales THEN NoSpec ELSE UpstreamSpec(k)]

\* downstream asks for the labels and the masks, one voxel each, and for the
\* scales or not
OverlapRequests ==
    {[k \in BLKeys |-> IF k = scales /\ ~withScales THEN NoSpec
                       ELSE ArraySpec(Roi(<<0, 0>>, <<1, 1>>), NoCoord, None, FALSE)] :
        withScales \in BOOLEAN}

InitOverlap ==
    /\ InitReq
    /\ masks \in MaskArgs
    /\ skip_next = FALSE
    /\ upstream = FullUpstream
    /\ InitDriver

PrepareOf(t) ==
    /\ blpc = "idle"
    /\ inflight[t].pc = "new"
    /\ \E req \in OverlapRequests :
          /\ skip_next' = prepare(req).skip_next
          /\ inflight' = [inflight EXCEPT ![t] =
                 [pc |-> "prepared", hadScales |-> Holds(req, scales),
                  request |-> prepare(req).request, batch |-> EmptyBatch,
                  outcome |-> "none"]]
    /\ UNCHANGED <<masks, upstream, blspec, request, batch, blpc, blhist>>
    /\ UNCHANGED reqVars

FetchOf(t) ==
    /\ inflight[t].pc = "prepared"
    /\ \A k \in BLKeys : Holds(inflight[t].request, k) => Holds(upstream, k)
    /\ \E dl \in DataFor(inflight[t].request, labels),
          d1 \in DataFor(inflight[t].request, "MASK1"),
          d2 \in DataFor(inflight[t].request, "MASK2") :
          inflight' = [inflight EXCEPT ![t].pc = "fetched",
                          ![t].batch = BatchOf(inflight[t].request, dl, d1, d2)]
    /\ UNCHANGED <<masks, skip_next, upstream, blspec, request, batch, blpc, blhist>>
    /\ UNCHANGED reqVars

ProcessOf(t) ==
    /\ inflight[t].pc = "fetched"
    /\ skip_next' = process(skip_next, blspec, inflight[t].batch, masks).skip_next
    /\ inflight' = [inflight EXCEPT ![t].pc = "processed",
            ![t].batch = process(skip_next, blspec, inflight[t].batch, masks).batch,
            ![t].outcome = process(skip_next, blspec, inflight[t].batch, masks).outcome]
    /\ UNCHANGED <<masks, upstream, blspec, request, batch, blpc, blhist>>
    /\ UNCHANGED reqVars

PrepareSome == \E t \in Traversals : PrepareOf(t)
FetchSome == \E t \in Traversals : FetchOf(t)
ProcessSome == \E t \in Traversals : ProcessOf(t)

NextOverlap == Setup \/ PrepareSome \/ FetchSome \/ ProcessSome

SpecOverlap == InitOverlap /\ [][NextOverlap]_vars

----------------------------------------------------------------------------
(* Properties of BatchRequest *)

SpatialKeys(r) == {k \in KeysOf(reqs[r]) : ~heap[reqs[r][k]].nonspatial}
SpecOf(r, k) == heap[reqs[r][k]]

\* C1: after every call of add, in any sequence of add calls, the center of
\* every spatial spec's roi is the center of the request's total roi, both
\* taken with the integer division of get_center.
C1_Centered ==
    last.op = "add" =>
        \A k \in SpatialKeys("r1") :
            get_center(SpecOf("r1", k).roi)
                = get_center(get_total_roi(heap, reqs["r1"]))

\* a request of three keys of different shapes, one of odd extent, one of
\* them moved from the zero offset add gave it
C1_Witness ==
    /\ last.op = "add" /\ last.result = "ok"
    /\ KeysOf(reqs["r1"]) = Keys
    /\ SpecOf("r1", "a1").roi.shape = <<1, 2>>
    /\ SpecOf("r1", "a2").roi.shape = <<2, 2>>
    /\ SpecOf("r1", "g1").roi.shape = <<2, 1>>
    /\ SpecOf("r1", "g1").roi.offset # <<0, 0>>

\* C7: add with a key that is neither an array key nor a graph key raises,
\* and the request is as before: nothing inserted, no roi shifted.
C7_OtherKeyRejected ==
    [][last'.op = "add" /\ last'.kind = "other" =>
          /\ last'.result = "RuntimeError"
          /\ Value("r1")' = Value("r1")]_vars

C7_Witness ==
    /\ last.op = "add" /\ last.kind = "other" /\ last.result = "RuntimeError"
    /\ Cardinality(KeysOf(reqs["r1"])) >= 2
    /\ \E k \in KeysOf(reqs["r1"]) : SpecOf("r1", k).roi.offset # <<0, 0>>

\* C2: after r2 = r1.copy(), a call that changes r2 leaves r1 as it was and
\* a call that changes r1 leaves r2 as it was; the copy itself leaves r1 as
\* it was and gives r2 the value of r1.
C2_CopyIndependent ==
    [][/\ last'.op = "copy" =>
              Value("r1")' = Value("r1") /\ Value("r2")' = Value("r1")
       /\ last'.op \in {"add", "del"} /\ "r2" \in live =>
              /\ last'.req = "r2" => Value("r1")' = Value("r1")
              /\ last'.req = "r1" => Value("r2")' = Value("r2")]_vars

\* the copy was changed by an add that moved one of its rois, and the
\* original still holds its own value
C2_Witness ==
    /\ "r2" \in live /\ last.op = "add" /\ last.req = "r2"
    /\ Cardinality(KeysOf(reqs["r1"])) >= 2
    /\ \E k \in KeysOf(reqs["r1"]) :
          /\ reqs["r2"][k] # 0
          /\ SpecOf("r2", k).roi # SpecOf("r1", k).roi

\* C3: merge mutates neither input.
C3_MergeKeepsInputs ==
    [][last'.op = "merge" =>
          Value("r1")' = Value("r1") /\ Value("r2")' = Value("r2")]_vars

InBoth == KeysOf(reqs["r1"]) \cap KeysOf(reqs["r2"])

\* a merge that took a union for a key both requests hold
C3_Witness ==
    /\ last.op = "merge" /\ last.result = "ok"
    /\ \E k \in InBoth :
          /\ ~SpecOf("r1", k).nonspatial
          /\ SpecOf("m", k).roi # SpecOf("r1", k).roi

C5_NonspatialOverwritten ==
    last.op = "merge" /\ last.result = "ok" =>
        \A k \in InBoth :
            SpecOf("r1", k).nonspatial => SpecOf("m", k) = SpecOf("r2", k)

\* C5 as the code has it: for a key in both requests whose spec in r1 is a
\* nonspatial array spec, the merged spec is the spec of r2.
C5_NonspatialArrayOverwritten ==
    last.op = "merge" /\ last.result = "ok" =>
        \A k \in InBoth :
            SpecOf("r1", k).nonspatial /\ SpecOf("r1", k).type = "ArraySpec" =>
                SpecOf("m", k) = SpecOf("r2", k)

\* a nonspatial array spec with a roi was overwritten by a spatial one
C5_Witness ==
    /\ last.op = "merge" /\ last.result = "ok"
    /\ reqs["r1"]["a1"] # 0 /\ reqs["r2"]["a1"] # 0
    /\ SpecOf("r1", "a1").nonspatial /\ SpecOf("r1", "a1").roi # NoRoi
    /\ ~SpecOf("r2", "a1").nonspatial
    /\ SpecOf("m", "a1") = SpecOf("r2", "a1")

\* C6: the merged request holds the keys of either request; a key of one
\* request only carries that request's spec, roi included.
C6_KeyUnion ==
    last.op = "merge" /\ last.result = "ok" =>
        /\ KeysOf(reqs["m"]) = KeysOf(reqs["r1"]) \cup KeysOf(reqs["r2"])
        /\ \A k \in KeysOf(reqs["r2"]) \ KeysOf(reqs["r1"]) :
              SpecOf("m", k) = SpecOf("r2", k)
        /\ \A k \in KeysOf(reqs["r1"]) \ KeysOf(reqs["r2"]) :
              SpecOf("m", k) = SpecOf("r1", k)

\* a key of r1 only, a key of r2 only, neither roi centered on the other
C6_Witness ==
    /\ last.op = "merge" /\ last.result = "ok"
    /\ KeysOf(reqs["r1"]) = {"a1"} /\ KeysOf(reqs["r2"]) = {"g1"}
    /\ ~SpecOf("m", "a1").nonspatial /\ ~SpecOf("m", "g1").nonspatial
    /\ get_center(SpecOf("m", "a1").roi) # get_center(SpecOf("m", "g1").roi)

\* componentwise order of shapes
ShapeLeq(s1, s2) == s1[1] <= s2[1] /\ s1[2] <= s2[2]

\* the step that adds k2 to a request holding only k1, k1's shape being at
\* most k2's in every component
SecondAdd(k1, k2) ==
    /\ KeysOf(reqs["r1"]) = {k1}
    /\ KeysOf(reqs["r1"]') = {k1, k2}
    /\ ShapeLeq(SpecOf("r1", k1).roi.shape, SpecOf("r1", k2)'.roi.shape)

C20_ShapesKept ==
    /\ KeysOf(reqs["r1"]) = {k \in Keys : last.kind[k] # NoCoord}
    /\ \A k \in KeysOf(reqs["r1"]) : SpecOf("r1", k).roi.shape = last.kind[k]
    /\ \A k \in KeysOf(reqs["r1"]), x \in KeysOf(reqs["r1"]) :
          k # x => reqs["r1"][k] # reqs["r1"][x]

\* three keys of different shapes, two of them moved by the centering pass
C20_Witness ==
    /\ last.op = "add" /\ last.result = "ok"
    /\ KeysOf(reqs["r1"]) = Keys
    /\ last.kind["a1"] = <<1, 2>> /\ SpecOf("r1", "a1").roi.offset # <<0, 0>>
    /\ last.kind["g1"] = <<2, 0>> /\ SpecOf("r1", "g1").roi.offset # <<0, 0>>
    /\ last.kind["a2"] = <<2, 2>>

\* C17: add leaves the roi of every nonspatial spec already in the request
\* as it was, and its centering pass ends without error when the request
\* holds a nonspatial spec, with or without a roi.
C17_NonspatialUntouched ==
    [][last'.op = "add" /\ last'.kind # "other" =>
          \A k \in KeysOf(reqs["r1"]) :
              SpecOf("r1", k).nonspatial /\ SpecOf("r1", k)'.nonspatial =>
                  /\ last'.result = "ok"
                  /\ SpecOf("r1", k)'.roi = SpecOf("r1", k).roi]_vars

----------------------------------------------------------------------------
(* Properties of BalanceLabels *)

\* the batch holds the labels and every mask, each mask of the labels' shape
Computable(b) ==
    /\ InBatch(b, labels)
    /\ \A i \in 1..Len(masks) :
          InBatch(b, masks[i]) /\ Len(b[masks[i]].data) = Len(b[labels].data)

\* C8: the process call that follows a prepare is a no-op that leaves the
\* batch as it was, without a scales entry, when the request given to that
\* prepare did not hold the scales key; and it computes and writes the scales
\* entry when the request did hold it.
C8_ProcessFollowsPrepare ==
    blpc = "processed" =>
        /\ ~blhist.hadScales =>
              /\ blhist.outcome = "skipped"
              /\ batch = blhist.batch
              /\ ~InBatch(batch, scales)
        /\ blhist.hadScales =>
              /\ blhist.outcome = "computed"
              /\ InBatch(batch, scales)

\* C8, amended: the process call that follows a prepare returns at once,
\* leaving the batch as it was and without a scales entry, exactly when the
\* request given to that prepare did not hold the scales key.  When the
\* request did hold it, process writes the scales entry if the batch holds
\* the labels and every mask, each of the labels' shape, and otherwise
\* raises and leaves the batch as it was.
C8_SkipFollowsPrepare ==
    blpc = "processed" =>
        /\ (blhist.outcome = "skipped") = ~blhist.hadScales
        /\ blhist.outcome = "skipped" => batch = blhist.batch /\ ~InBatch(batch, scales)
        /\ blhist.hadScales /\ Computable(blhist.batch) =>
              blhist.outcome = "computed" /\ InBatch(batch, scales)
        /\ blhist.hadScales /\ ~Computable(blhist.batch) =>
              blhist.outcome \in {"KeyError", "AssertionError"} /\ batch = blhist.batch

\* scales were computed in a traversal whose prepare found skip_next set: a
\* traversal without scales had been given up between prepare and process
C8_Witness ==
    /\ blpc = "processed"
    /\ blhist.stale /\ blhist.hadScales
    /\ blhist.outcome = "computed" /\ InBatch(batch, scales)
    /\ Len(masks) = 1

\* the binarized labels and the product of the masks of the batch process was
\* given
LabelsBinary == [j \in 1..Len(blhist.batch[labels].data) |->
                    Binary(blhist.batch[labels].data[j])]
ErrorScaleOnes == MaskProduct(blhist.batch, masks, 1, Len(blhist.batch[labels].data))
\* element j is masked out: some mask is 0 there
MaskedOut(j) == \E i \in 1..Len(masks) : blhist.batch[masks[i]].data[j] = 0
Computed == blpc = "processed" /\ blhist.outcome = "computed"

\* C12: in the scales process writes, every element at which some mask is 0
\* is 0.  When every element is masked out, frac_pos is 0 before it is
\* clipped, nothing is divided by zero (no element is not-a-number), w_neg
\* is 1/(2*0.95), and every element of scales is 0.
C12_MaskedOutIsZero ==
    Computed =>
        /\ Len(batch[scales].data) = Len(blhist.batch[labels].data)
        /\ \A j \in 1..Len(batch[scales].data) :
              /\ batch[scales].data[j] # NaN
              /\ MaskedOut(j) => batch[scales].data[j] = <<0, 1>>
        /\ (\A j \in 1..Len(batch[scales].data) : MaskedOut(j)) =>
              /\ RawFracPos(LabelsBinary, ErrorScaleOnes) = <<0, 1>>
              /\ WNeg(FracPos(LabelsBinary, ErrorScaleOnes)) = <<10, 19>>
              /\ \A j \in 1..Len(batch[scales].data) : batch[scales].data[j] = <<0, 1>>

\* two voxels, each masked out by another of two masks, neither mask all 0
C12_Witness ==
    /\ Computed
    /\ masks = <<"MASK1", "MASK2">>
    /\ blhist.batch["MASK1"].data = <<0, 1>>
    /\ blhist.batch["MASK2"].data = <<1, 0>>
    /\ blhist.batch[labels].data = <<1, 0>>
    /\ batch[scales].data = <<(<<0, 1>>), (<<0, 1>>)>>

\* no masks, and every label of the batch process was given is v
Unmasked(v) ==
    /\ Computed
    /\ masks = <<>>
    /\ \A j \in 1..Len(blhist.batch[labels].data) : blhist.batch[labels].data[j] = v

\* C13: with no masks and labels that are all 1, frac_pos is 1 before it is
\* clipped and 0.95 after, and every element of scales is w_pos, which is
\* 1/(2*0.95) = 10/19.
C13_AllOnes ==
    Unmasked(1) =>
        /\ RawFracPos(LabelsBinary, ErrorScaleOnes) = <<1, 1>>
        /\ FracPos(LabelsBinary, ErrorScaleOnes) = <<19, 20>>
        /\ WPos(FracPos(LabelsBinary, ErrorScaleOnes)) = <<10, 19>>
        /\ Len(batch[scales].data) = Len(blhist.batch[labels].data)
        /\ \A j \in 1..Len(batch[scales].data) : batch[scales].data[j] = <<10, 19>>

C13_Witness ==
    /\ Unmasked(1)
    /\ blhist.batch[labels].data = <<1, 1>>
    /\ batch[scales].data = <<(<<10, 19>>), (<<10, 19>>)>>

\* C14 as stated: with no masks and labels that are all 0, every element of
\* scales is 1/(2*0.05) = 10.
C14_AllZerosTen ==
    Unmasked(0) =>
        /\ Len(batch[scales].data) = Len(blhist.batch[labels].data)
        /\ \A j \in 1..Len(batch[scales].data) : batch[scales].data[j] = <<10, 1>>

\* C14, amended: with no masks and labels that are all 0, frac_pos is 0 before
\* it is clipped and 0.05 after, w_pos is 1/(2*0.05) = 10 and w_neg is
\* 1/(2*0.95) = 10/19, and every element of scales is w_neg.
C14_AllZerosWNeg ==
    Unmasked(0) =>
        /\ RawFracPos(LabelsBinary, ErrorScaleOnes) = <<0, 1>>
        /\ FracPos(LabelsBinary, ErrorScaleOnes) = <<1, 20>>
        /\ WPos(FracPos(LabelsBinary, ErrorScaleOnes)) = <<10, 1>>
        /\ Len(batch[scales].data) = Len(blhist.batch[labels].data)
        /\ \A j \in 1..Len(batch[scales].data) : batch[scales].data[j] = <<10, 19>>

C14_Witness ==
    /\ Unmasked(0)
    /\ blhist.batch[labels].data = <<0, 0>>
    /\ batch[scales].data = <<(<<10, 19>>), (<<10, 19>>)>>

\* C15: in every interleaving of the prepare and process calls of two
\* requests through one instance, each request's prepare before its own
\* process, a process call skips exactly when its own request did not hold
\* the scales key, and computes the scales exactly when it did.
C15_PerRequestSkip ==
    \A t \in Traversals :
        inflight[t].pc = "processed" =>
            /\ (inflight[t].outcome = "skipped") = ~inflight[t].hadScales
            /\ (inflight[t].outcome = "computed") = inflight[t].hadScales
            /\ InBatch(inflight[t].batch, scales) = inflight[t].hadScales

\* C16: when the request given to prepare holds the scales key, the request
\* forwarded upstream holds the labels key and every mask key of the filter,
\* whether or not the incoming request held them.
C16_DependenciesForwarded ==
    blpc = "prepared" /\ blhist.hadScales =>
        /\ Holds(request, labels)
        /\ \A i \in 1..Len(masks) : Holds(request, masks[i])

\* C18: after a process call, however it ends, every entry of the batch other
\* than scales has the data and the spec it had before the call; a scales
\* entry is there only when process computed it, and then its spec has the
\* roi of the labels volume of the batch, with the other fields of the scales
\* spec the filter provides.
C18_OnlyScalesWritten ==
    blpc = "processed" =>
        /\ \A k \in BLKeys \ {scales} : batch[k] = blhist.batch[k]
        /\ blhist.outcome # "computed" => batch[scales] = blhist.batch[scales]
        /\ blhist.outcome = "computed" =>
              /\ batch[scales].spec.roi = blhist.batch[labels].spec.roi
              /\ batch[scales].spec.dtype = blspec[scales].dtype
              /\ batch[scales].spec.voxel_size = blspec[scales].voxel_size

\* scales were computed from labels and two masks of a roi that is not the
\* roi of the scales spec the filter provides
C18_Witness ==
    /\ Computed
    /\ masks = <<"MASK1", "MASK2">>
    /\ Len(blhist.batch[labels].data) = 2
    /\ \E j \in 1..2 : batch[scales].data[j] # <<0, 1>>
    /\ batch[scales].spec.roi # blspec[scales].roi
    /\ batch[scales].spec.roi = blhist.batch[labels].spec.roi

\* C9: the request prepare leaves for the upstream provider never holds the
\* scales key, and holds every other key with the spec it came with.
C9_ScalesNotForwarded ==
    blpc = "prepared" =>
        /\ ~Holds(request, scales)
        /\ \A k \in BLKeys \ {scales} : request[k] = blhist.request[k]

\* a request for scales, labels and a mask went through prepare
C9_Witness ==
    /\ blpc = "prepared"
    /\ Holds(blhist.request, scales)
    /\ Holds(request, labels) /\ Holds(request, "MASK1")
    /\ request[labels].roi # request["MASK1"].roi

\* C10: setup fails when the labels key or a mask key is not among the
\* upstream specs, and then provides nothing; otherwise it provides scales
\* with the roi and voxel_size of the labels spec and a floating point dtype,
\* and the labels spec is as the upstream provider declared it.
C10_Setup ==
    blpc # "new" =>
        IF Holds(upstream, labels) /\ \A i \in 1..Len(masks) : Holds(upstream, masks[i])
        THEN /\ blpc # "failed"
             /\ Holds(blspec, scales)
             /\ blspec[scales].roi = upstream[labels].roi
             /\ blspec[scales].voxel_size = upstream[labels].voxel_size
             /\ blspec[scales].dtype = "float32"
             /\ \A k \in BLKeys \ {scales} : blspec[k] = upstream[k]
        ELSE /\ blpc = "failed"
             /\ blspec = upstream
             /\ ~Holds(blspec, scales)

\* setup failed for the second of two masks, the labels being provided
C10_Witness ==
    /\ blpc = "failed"
    /\ Holds(upstream, labels) /\ Holds(upstream, "MASK1")
    /\ masks = <<"MASK1", "MASK2">>

=============================================================================
